---- MODULE Spec2Model ----
(***************************************************************************)
(* Model of src/src/lib.rs (ordered-float): the wrappers OrderedFloat<T>   *)
(* and NotNaN<T> over IEEE 754 floats, and the canonical hash input        *)
(* raw_double_bits.                                                        *)
(*                                                                         *)
(* A float is the record [k, s, e, f]: its kind ("f32" or "f64"), its sign *)
(* bit, its biased exponent field and its fraction field.  The fraction    *)
(* and every u64 word are sets of the positions of their 1 bits, so that   *)
(* 52 and 64 bit quantities are exact: & is \cap, | is \cup, << adds to    *)
(* every position.                                                         *)
(***************************************************************************)
EXTENDS Integers, FiniteSets, Sequences, TLC

VARIABLES kind, a, b, st, msg, last, oa, ob, oc, out

vars == <<kind, a, b, st, msg, last, oa, ob, oc, out>>
nvars == <<kind, a, b, st, msg, last>>
ovars == <<oa, ob, oc, out>>

-----------------------------------------------------------------------------
(* Bounds of the model.                                                    *)

\* the arithmetic window is the powers of two 2^0 .. 2^WinHi
WinHi == 1
\* leading fraction bits that vary in the sampled bit patterns
TopBits == 1
\* trailing fraction bits that vary in the sampled bit patterns
LowBits == 1

-----------------------------------------------------------------------------
(* IEEE 754 layouts of f32 and f64.                                        *)

Kinds == {"f32", "f64"}

RECURSIVE Pow2(_)
Pow2(n) == IF n <= 0 THEN 1 ELSE 2 * Pow2(n - 1)

EBITS(k) == IF k = "f32" THEN 8 ELSE 11
MBITS(k) == IF k = "f32" THEN 23 ELSE 52
BIAS(k) == IF k = "f32" THEN 127 ELSE 1023
\* the exponent field of all ones: 2^EBITS - 1
EMAX(k) == IF k = "f32" THEN 255 ELSE 2047

Float(k, s, e, f) == [k |-> k, s |-> s, e |-> e, f |-> f]

AllFrac(k) == 0 .. (MBITS(k) - 1)

\* T::nan(), T::infinity(), T::neg_infinity(), T::zero(), T::neg_zero(), T::one()
nan(k) == Float(k, 0, EMAX(k), {MBITS(k) - 1})
infinity(k) == Float(k, 0, EMAX(k), {})
neg_infinity(k) == Float(k, 1, EMAX(k), {})
zero(k) == Float(k, 0, 0, {})
neg_zero(k) == Float(k, 1, 0, {})
one(k) == Float(k, 0, BIAS(k), {})
\* T::max_value(), T::min_value(): the largest finite magnitude
max_value(k) == Float(k, 0, EMAX(k) - 1, AllFrac(k))
min_value(k) == Float(k, 1, EMAX(k) - 1, AllFrac(k))

\* Float::is_nan and its companions
is_nan(x) == x.e = EMAX(x.k) /\ x.f # {}
is_infinite(x) == x.e = EMAX(x.k) /\ x.f = {}
is_zero(x) == x.e = 0 /\ x.f = {}
is_finite(x) == x.e # EMAX(x.k)

\* A < B for two fractions read as binary numbers
BitsLess(A, B) ==
    \E i \in B \ A : \A j \in (A \cup B) : j > i => (j \in A <=> j \in B)

MagLess(x, y) == x.e < y.e \/ (x.e = y.e /\ BitsLess(x.f, y.f))

\* f32/f64 partial_cmp: None when either side is NaN, -0.0 equal to +0.0
float_partial_cmp(x, y) ==
    IF is_nan(x) \/ is_nan(y) THEN "None"
    ELSE IF is_zero(x) /\ is_zero(y) THEN "Equal"
    ELSE IF x.s # y.s THEN (IF x.s = 1 THEN "Less" ELSE "Greater")
    ELSE IF MagLess(x, y) THEN (IF x.s = 0 THEN "Less" ELSE "Greater")
    ELSE IF MagLess(y, x) THEN (IF x.s = 0 THEN "Greater" ELSE "Less")
    ELSE "Equal"

\* f32/f64 ==, <, >
float_eq(x, y) == float_partial_cmp(x, y) = "Equal"
float_lt(x, y) == float_partial_cmp(x, y) = "Less"
float_gt(x, y) == float_partial_cmp(x, y) = "Greater"

\* the position of the highest 1 bit of a nonempty fraction
TopBit(f) == CHOOSE i \in f : \A j \in f : j <= i

\* x as f64: the same mathematical value in the 64 bit layout.  A subnormal
\* f32 is a normal f64
Promote(x) ==
    IF x.k = "f64" THEN x
    ELSE IF x.e = EMAX("f32")
        THEN Float("f64", x.s, EMAX("f64"), {i + 29 : i \in x.f})
    ELSE IF x.e = 0 /\ x.f = {} THEN Float("f64", x.s, 0, {})
    ELSE IF x.e = 0
        THEN Float("f64", x.s, TopBit(x.f) - 149 + BIAS("f64"),
                   {i + (52 - TopBit(x.f)) : i \in x.f \ {TopBit(x.f)}})
    ELSE Float("f64", x.s, x.e - BIAS("f32") + BIAS("f64"), {i + 29 : i \in x.f})

-----------------------------------------------------------------------------
(* u64 words.                                                              *)

Shl(w, n) == {i + n : i \in w} \cap (0 .. 63)

\* the bits of a 16 bit unsigned number
U16Bits(n) == {i \in 0 .. 15 : (n \div Pow2(i)) % 2 = 1}

\* mem::transmute::<i16, u16>
transmute_i16_u16(n) == (n + 65536) % 65536

\* masks for the parts of the IEEE 754 float
SIGN_MASK == {63}
EXP_MASK == 52 .. 62
MAN_MASK == 0 .. 51

\* canonical raw bit patterns (for hashing)
CANONICAL_NAN_BITS == 51 .. 62
CANONICAL_ZERO_BITS == {}

\* Float::integer_decode: (mantissa, exponent, sign)
integer_decode(x) ==
    [man |-> IF x.e = 0 THEN Shl(x.f, 1) ELSE x.f \cup {MBITS(x.k)},
     exp |-> x.e - (BIAS(x.k) + MBITS(x.k)),
     sign |-> IF x.s = 0 THEN 1 ELSE -1]

\* raw_double_bits without the canonical zero
raw_double_bits_no_zero(f) ==
    IF is_nan(f) THEN CANONICAL_NAN_BITS
    ELSE LET d == integer_decode(f)
             exp_u64 == U16Bits(transmute_i16_u16(d.exp))
             sign_u64 == IF d.sign > 0 THEN {0} ELSE {}
         IN (d.man \cap MAN_MASK)
               \cup (Shl(exp_u64, 52) \cap EXP_MASK)
               \cup (Shl(sign_u64, 63) \cap SIGN_MASK)

raw_double_bits(f) ==
    IF is_nan(f) THEN CANONICAL_NAN_BITS
    ELSE LET d == integer_decode(f) IN
         IF d.man = {} THEN CANONICAL_ZERO_BITS
         ELSE LET exp_u64 == U16Bits(transmute_i16_u16(d.exp))
                  sign_u64 == IF d.sign > 0 THEN {0} ELSE {}
              IN (d.man \cap MAN_MASK)
                    \cup (Shl(exp_u64, 52) \cap EXP_MASK)
                    \cup (Shl(sign_u64, 63) \cap SIGN_MASK)

\* hash_float: the word handed to the hasher
hash_float(f) == raw_double_bits(f)

-----------------------------------------------------------------------------
(* OrderedFloat<T>: the tuple struct OrderedFloat(pub T).                  *)

OrderedFloat(val) == <<val>>

OrderedFloat_into_inner(self) == self[1]

OrderedFloat_as_ref(self) == self[1]

\* #[derive(PartialOrd)]: the comparison of the one field
OrderedFloat_partial_cmp(self, other) == float_partial_cmp(self[1], other[1])
OrderedFloat_lt(self, other) == float_lt(self[1], other[1])
OrderedFloat_gt(self, other) == float_gt(self[1], other[1])

\* OrderedFloat_cmp with a NaN on the left always Greater
OrderedFloat_cmp_nan_greater(self, other) ==
    IF OrderedFloat_partial_cmp(self, other) # "None"
        THEN OrderedFloat_partial_cmp(self, other)
    ELSE IF is_nan(OrderedFloat_as_ref(self)) THEN "Greater"
    ELSE "Less"

OrderedFloat_cmp(self, other) ==
    IF OrderedFloat_partial_cmp(self, other) # "None"
        THEN OrderedFloat_partial_cmp(self, other)
    ELSE IF is_nan(OrderedFloat_as_ref(self))
        THEN (IF is_nan(OrderedFloat_as_ref(other)) THEN "Equal" ELSE "Greater")
    ELSE "Less"

OrderedFloat_eq(self, other) ==
    IF is_nan(OrderedFloat_as_ref(self))
        THEN (IF is_nan(OrderedFloat_as_ref(other)) THEN TRUE ELSE FALSE)
    ELSE IF is_nan(OrderedFloat_as_ref(other)) THEN FALSE
    ELSE float_eq(OrderedFloat_as_ref(self), OrderedFloat_as_ref(other))

OrderedFloat_hash(self) ==
    IF is_nan(self[1]) THEN hash_float(nan(self[1].k))
    ELSE hash_float(OrderedFloat_as_ref(self))

-----------------------------------------------------------------------------
(* NotNaN<T>: the tuple struct NotNaN(T).                                  *)

NotNaN(val) == <<val>>

Ok(w) == [tag |-> "Ok", val |-> w]
Err(e) == [tag |-> "Err", val |-> e]

\* NotNaN_new rejecting only the NaN with the quiet bit set
NotNaN_new_quiet_only(val) ==
    IF is_nan(val) /\ (MBITS(val.k) - 1) \in val.f THEN Err("FloatIsNaN")
    ELSE Ok(NotNaN(val))

NotNaN_new(val) == IF is_nan(val) THEN Err("FloatIsNaN") ELSE Ok(NotNaN(val))

NotNaN_into_inner(self) == self[1]

NotNaN_as_ref(self) == self[1]

\* #[derive(PartialOrd, PartialEq)]
NotNaN_partial_cmp(self, other) == float_partial_cmp(self[1], other[1])
NotNaN_eq(self, other) == float_eq(self[1], other[1])

\* Ord for NotNaN: cmp. partial_cmp answering None runs unreachable(),
\* undefined behaviour: the call may then yield any Ordering and the
\* execution has no defined meaning from there on.
NotNaN_cmp(self, other) ==
    IF NotNaN_partial_cmp(self, other) # "None"
        THEN {[st |-> "run", r |-> NotNaN_partial_cmp(self, other)]}
    ELSE {[st |-> "undefined", r |-> o] : o \in {"Less", "Equal", "Greater"}}

NotNaN_hash(self) == hash_float(NotNaN_as_ref(self))

-----------------------------------------------------------------------------
(* Arithmetic of f32 and f64 (IEEE 754, round to nearest even).            *)
(*                                                                         *)
(* Every operator gives the set of the results the operation can have: one *)
(* value, or the quiet NaN of either sign where the result is NaN (its     *)
(* sign is not fixed by the language), or no value where the result is     *)
(* outside the values the model carries.  The finite values carried are    *)
(* the window 1, 2, ..., 2^WinHi of either sign, on which the arithmetic   *)
(* is exact, and the largest finite value; a step whose exact result is a  *)
(* finite value outside the window is not taken.                           *)

QuietNaNs(k) == {Float(k, s, EMAX(k), {MBITS(k) - 1}) : s \in {0, 1}}

InWindow(x) == x.e >= BIAS(x.k) /\ x.e <= BIAS(x.k) + WinHi /\ x.f = {}

IsMax(x) == x.e = EMAX(x.k) - 1 /\ x.f = AllFrac(x.k)

SameMag(x, y) == x.e = y.e /\ x.f = y.f

WithSign(x, s) == Float(x.k, s, x.e, x.f)

\* |x| as an integer, for x in the window
Units(x) == Pow2(x.e - BIAS(x.k))

SUnits(x) == IF x.s = 1 THEN 0 - Units(x) ELSE Units(x)

Abs(n) == IF n < 0 THEN 0 - n ELSE n

\* the window value of sign s and magnitude n, if there is one
FromUnits(k, s, n) == {Float(k, s, BIAS(k) + j, {}) : j \in {i \in 0 .. WinHi : n = Pow2(i)}}

Xor(s, t) == IF s = t THEN 0 ELSE 1

\* self.0 + other.0
FAdd(x, y) ==
    IF is_nan(x) \/ is_nan(y) THEN QuietNaNs(x.k)
    ELSE IF is_infinite(x) /\ is_infinite(y)
        THEN (IF x.s = y.s THEN {x} ELSE QuietNaNs(x.k))
    ELSE IF is_infinite(x) THEN {x}
    ELSE IF is_infinite(y) THEN {y}
    ELSE IF is_zero(x) /\ is_zero(y)
        THEN {Float(x.k, IF x.s = 1 /\ y.s = 1 THEN 1 ELSE 0, 0, {})}
    ELSE IF is_zero(x) THEN {y}
    ELSE IF is_zero(y) THEN {x}
    ELSE IF SameMag(x, y) /\ x.s # y.s THEN {zero(x.k)}
    ELSE IF InWindow(x) /\ InWindow(y)
        THEN LET n == SUnits(x) + SUnits(y)
             IN FromUnits(x.k, IF n < 0 THEN 1 ELSE 0, Abs(n))
    ELSE IF IsMax(x) /\ IsMax(y) THEN {Float(x.k, x.s, EMAX(x.k), {})}
    ELSE IF IsMax(x) /\ InWindow(y) THEN {x}
    ELSE IF IsMax(y) /\ InWindow(x) THEN {y}
    ELSE {}

\* -self.0
FNeg(x) == WithSign(x, 1 - x.s)

\* self.0 - other.0
FSub(x, y) == FAdd(x, FNeg(y))

\* self.0 * other.0
FMul(x, y) ==
    LET s == Xor(x.s, y.s) IN
    IF is_nan(x) \/ is_nan(y) THEN QuietNaNs(x.k)
    ELSE IF (is_infinite(x) /\ is_zero(y)) \/ (is_zero(x) /\ is_infinite(y))
        THEN QuietNaNs(x.k)
    ELSE IF is_infinite(x) \/ is_infinite(y) THEN {Float(x.k, s, EMAX(x.k), {})}
    ELSE IF is_zero(x) \/ is_zero(y) THEN {Float(x.k, s, 0, {})}
    ELSE IF InWindow(x) /\ InWindow(y) THEN FromUnits(x.k, s, Units(x) * Units(y))
    ELSE IF IsMax(x) /\ IsMax(y) THEN {Float(x.k, s, EMAX(x.k), {})}
    ELSE IF IsMax(x) /\ InWindow(y)
        THEN (IF Units(y) = 1 THEN {WithSign(x, s)} ELSE {Float(x.k, s, EMAX(x.k), {})})
    ELSE IF IsMax(y) /\ InWindow(x)
        THEN (IF Units(x) = 1 THEN {WithSign(y, s)} ELSE {Float(x.k, s, EMAX(x.k), {})})
    ELSE {}

\* self.0 / other.0
FDiv(x, y) ==
    LET s == Xor(x.s, y.s) IN
    IF is_nan(x) \/ is_nan(y) THEN QuietNaNs(x.k)
    ELSE IF (is_infinite(x) /\ is_infinite(y)) \/ (is_zero(x) /\ is_zero(y))
        THEN QuietNaNs(x.k)
    ELSE IF is_infinite(x) \/ is_zero(y) THEN {Float(x.k, s, EMAX(x.k), {})}
    ELSE IF is_zero(x) \/ is_infinite(y) THEN {Float(x.k, s, 0, {})}
    ELSE IF SameMag(x, y) THEN {WithSign(one(x.k), s)}
    ELSE IF InWindow(x) /\ InWindow(y)
        THEN (IF Units(x) % Units(y) = 0
              THEN FromUnits(x.k, s, Units(x) \div Units(y)) ELSE {})
    ELSE IF IsMax(x) /\ InWindow(y) /\ Units(y) = 1 THEN {WithSign(x, s)}
    ELSE {}

\* self.0 % other.0: the remainder of the truncated quotient, with the sign
\* of the dividend
FRem(x, y) ==
    IF is_nan(x) \/ is_nan(y) THEN QuietNaNs(x.k)
    ELSE IF is_infinite(x) \/ is_zero(y) THEN QuietNaNs(x.k)
    ELSE IF is_infinite(y) \/ is_zero(x) THEN {x}
    ELSE IF MagLess(x, y) THEN {x}
    ELSE IF SameMag(x, y) THEN {Float(x.k, x.s, 0, {})}
    ELSE IF InWindow(x) /\ InWindow(y)
        THEN LET r == Units(x) % Units(y)
             IN IF r = 0 THEN {Float(x.k, x.s, 0, {})} ELSE FromUnits(x.k, x.s, r)
    ELSE {}

\* Float::abs, Float::signum, Float::abs_sub
FAbs(x) == WithSign(x, 0)

FSignum(x) == IF is_nan(x) THEN QuietNaNs(x.k) ELSE {WithSign(one(x.k), x.s)}

FAbsSub(x, y) ==
    IF is_nan(x) \/ is_nan(y) THEN QuietNaNs(x.k)
    ELSE IF float_gt(x, y) THEN FSub(x, y)
    ELSE {zero(x.k)}

\* n as T for an integer n
IntToFloat(k, n) ==
    IF n = 0 THEN {zero(k)} ELSE FromUnits(k, IF n < 0 THEN 1 ELSE 0, Abs(n))

\* n as f32 for a 64 bit float n that is NaN, infinite, zero or in the window
Demote(x) ==
    IF is_nan(x)
        THEN {Float("f32", x.s, EMAX("f32"), {i - 29 : i \in {j \in x.f : j >= 29}} \cup {22})}
    ELSE IF is_infinite(x) THEN {Float("f32", x.s, EMAX("f32"), {})}
    ELSE IF is_zero(x) THEN {Float("f32", x.s, 0, {})}
    ELSE IF InWindow(x)
        THEN {Float("f32", x.s, x.e - BIAS("f64") + BIAS("f32"), {i - 29 : i \in x.f})}
    ELSE {}

\* n as T for a float n
FloatToFloat(k, x) ==
    IF x.k = k THEN {x}
    ELSE IF k = "f64" THEN {Promote(x)}
    ELSE Demote(x)

\* T::from_str_radix on the sampled strings
ParseStrings == {"NaN", "inf", "-inf", "0", "-0", "1", "-1", "", "x"}

float_from_str_radix(k, src) ==
    IF src = "NaN" THEN Ok(nan(k))
    ELSE IF src = "inf" THEN Ok(infinity(k))
    ELSE IF src = "-inf" THEN Ok(neg_infinity(k))
    ELSE IF src = "0" THEN Ok(zero(k))
    ELSE IF src = "-0" THEN Ok(neg_zero(k))
    ELSE IF src = "1" THEN Ok(one(k))
    ELSE IF src = "-1" THEN Ok(WithSign(one(k), 1))
    ELSE IF src = "" THEN Err("Empty")
    ELSE Err("Invalid")

\* the raw floats a caller hands to NotNaN: a quiet NaN, a negative NaN with
\* the quiet bit clear, the infinities, the zeros and the window
RawSamplesOf ==
    [k \in Kinds |->
        {nan(k), Float(k, 1, EMAX(k), {0}), infinity(k), neg_infinity(k),
         zero(k), neg_zero(k)}
        \cup {Float(k, s, e, {}) : s \in {0, 1}, e \in BIAS(k) .. (BIAS(k) + WinHi)}]

RawSamples(k) == RawSamplesOf[k]

-----------------------------------------------------------------------------
(* The operations of NotNaN<T>.  Each gives the set of its outcomes: it    *)
(* returns (st "run") the value self, or panics (st "halted") with the     *)
(* message msg, self being the value as the panic leaves it.               *)

AssertOther == "assertion failed: !other.is_nan()"
AssertV == "assertion failed: !v.is_nan()"

Returns(self) == [st |-> "run", msg |-> "", self |-> self]
Panics(self, m) == [st |-> "halted", msg |-> m, self |-> self]

\* NotNaN::new(r).expect(m)
expect(self, r, m) ==
    IF NotNaN_new(r).tag = "Ok" THEN Returns(NotNaN_new(r).val) ELSE Panics(self, m)

\* assign_assert with the assertion before the assignment
assign_assert_checked_first(self, r, m) ==
    IF ~is_nan(r) THEN Returns(NotNaN(r)) ELSE Panics(self, m)

\* self.0 = r; assert!(!self.0.is_nan(), m): the panic leaves r in self
assign_assert(self, r, m) ==
    IF ~is_nan(r) THEN Returns(NotNaN(r)) ELSE Panics(NotNaN(r), m)

\* From<T>::from(v)
NotNaN_from(self, v) == IF is_nan(v) THEN Panics(self, AssertV) ELSE Returns(NotNaN(v))

NotNaN_add(self, other) == {Returns(NotNaN(r)) : r \in FAdd(self[1], other[1])}

NotNaN_add_T(self, other) ==
    IF is_nan(other) THEN {Panics(self, AssertOther)}
    ELSE {expect(self, r, "Addition resulted in NaN") : r \in FAdd(self[1], other)}

NotNaN_sub(self, other) ==
    {expect(self, r, "Subtraction resulted in NaN") : r \in FSub(self[1], other[1])}

NotNaN_sub_T(self, other) ==
    IF is_nan(other) THEN {Panics(self, AssertOther)}
    ELSE {expect(self, r, "Subtraction resulted in NaN") : r \in FSub(self[1], other)}

NotNaN_mul(self, other) ==
    {expect(self, r, "Multiplication resulted in NaN") : r \in FMul(self[1], other[1])}

NotNaN_mul_T(self, other) ==
    IF is_nan(other) THEN {Panics(self, AssertOther)}
    ELSE {expect(self, r, "Multiplication resulted in NaN") : r \in FMul(self[1], other)}

\* NotNaN_div without the check of the quotient
NotNaN_div_unchecked(self, other) == {Returns(NotNaN(r)) : r \in FDiv(self[1], other[1])}

NotNaN_div(self, other) ==
    {expect(self, r, "Division resulted in NaN") : r \in FDiv(self[1], other[1])}

NotNaN_div_T(self, other) ==
    IF is_nan(other) THEN {Panics(self, AssertOther)}
    ELSE {expect(self, r, "Division resulted in NaN") : r \in FDiv(self[1], other)}

NotNaN_rem(self, other) ==
    {expect(self, r, "Rem resulted in NaN") : r \in FRem(self[1], other[1])}

NotNaN_rem_T(self, other) ==
    IF is_nan(other) THEN {Panics(self, AssertOther)}
    ELSE {expect(self, r, "Rem resulted in NaN") : r \in FRem(self[1], other)}

\* the operators in place: the impls for NotNaN<f64> and NotNaN<f32> are
\* the same but for MulAssign of a raw float
NotNaN_add_assign(self, other) ==
    {assign_assert(self, r, "Addition resulted in NaN") : r \in FAdd(self[1], other[1])}

NotNaN_add_assign_T(self, other) ==
    IF is_nan(other) THEN {Panics(self, AssertOther)}
    ELSE {assign_assert(self, r, "Addition resulted in NaN") : r \in FAdd(self[1], other)}

NotNaN_sub_assign(self, other) ==
    {assign_assert(self, r, "Subtraction resulted in NaN") : r \in FSub(self[1], other[1])}

NotNaN_sub_assign_T(self, other) ==
    IF is_nan(other) THEN {Panics(self, AssertOther)}
    ELSE {assign_assert(self, r, "Subtraction resulted in NaN") : r \in FSub(self[1], other)}

NotNaN_mul_assign(self, other) ==
    {assign_assert(self, r, "Multiplication resulted in NaN") : r \in FMul(self[1], other[1])}

\* MulAssign<f64> for NotNaN<f64>: no assertion after the multiplication
NotNaN_mul_assign_T_f64(self, other) ==
    IF is_nan(other) THEN {Panics(self, AssertOther)}
    ELSE {Returns(NotNaN(r)) : r \in FMul(self[1], other)}

NotNaN_mul_assign_T_f32(self, other) ==
    IF is_nan(other) THEN {Panics(self, AssertOther)}
    ELSE {assign_assert(self, r, "Multiplication resulted in NaN") : r \in FMul(self[1], other)}

NotNaN_div_assign(self, other) ==
    {assign_assert(self, r, "Division resulted in NaN") : r \in FDiv(self[1], other[1])}

NotNaN_div_assign_T(self, other) ==
    IF is_nan(other) THEN {Panics(self, AssertOther)}
    ELSE {assign_assert(self, r, "Division resulted in NaN") : r \in FDiv(self[1], other)}

NotNaN_rem_assign(self, other) ==
    {assign_assert(self, r, "Rem resulted in NaN") : r \in FRem(self[1], other[1])}

NotNaN_rem_assign_T(self, other) ==
    IF is_nan(other) THEN {Panics(self, AssertOther)}
    ELSE {assign_assert(self, r, "Rem resulted in NaN") : r \in FRem(self[1], other)}

NotNaN_neg(self) == {expect(self, FNeg(self[1]), "Negation resulted in NaN")}

NotNaN_abs(self) == {Returns(NotNaN(FAbs(self[1])))}

NotNaN_abs_sub(self, other) ==
    {expect(self, r, "Subtraction resulted in NaN") : r \in FAbsSub(self[1], other[1])}

NotNaN_signum(self) == {Returns(NotNaN(r)) : r \in FSignum(self[1])}

\* FromPrimitive: T::from_i64(n).and_then(|n| NotNaN::new(n).ok()), None
\* leaving self
NotNaN_from_primitive(self, x) ==
    IF NotNaN_new(x).tag = "Ok" THEN Returns(NotNaN_new(x).val) ELSE Returns(self)

\* Num::from_str_radix, an error leaving self
NotNaN_from_str_radix(self, k, src) ==
    LET p == float_from_str_radix(k, src) IN
    IF p.tag = "Err" THEN Returns(self)
    ELSE IF NotNaN_new(p.val).tag = "Err" THEN Returns(self)
    ELSE Returns(NotNaN_new(p.val).val)

-----------------------------------------------------------------------------
(* NotNaN<T> in use: a and b are two live NotNaN values of one kind; st is *)
(* "halted" once an operation has panicked, with the panic's message in    *)
(* msg; last names the last operation.                                     *)

NoOut == [op |-> "none"]

Init ==
    /\ kind \in Kinds
    /\ a = NotNaN(zero(kind))
    /\ b = NotNaN(zero(kind))
    /\ st = "run"
    /\ msg = ""
    /\ last = "default"
    /\ oa = zero(kind)
    /\ ob = zero(kind)
    /\ oc = zero(kind)
    /\ out = NoOut

\* a takes one of the outcomes of the operation op; the Ordering of an
\* earlier cmp is dropped
Do(op, outcomes) ==
    /\ \E o \in outcomes :
        /\ a' = o.self
        /\ st' = o.st
        /\ msg' = o.msg
    /\ last' = op
    /\ out' = NoOut
    /\ UNCHANGED <<kind, b, oa, ob, oc>>

\* NotNaN::new(val): Err leaves a as it is
New ==
    /\ st = "run"
    /\ \E val \in RawSamples(kind) :
        Do("new", {Returns(IF NotNaN_new(val).tag = "Ok" THEN NotNaN_new(val).val ELSE a)})

From == st = "run" /\ \E v \in RawSamples(kind) : Do("from", {NotNaN_from(a, v)})

Zero_zero == st = "run" /\ Do("zero", {Returns(NotNaN(zero(kind)))})

One_one == st = "run" /\ Do("one", {Returns(NotNaN(one(kind)))})

Bounded_min_value == st = "run" /\ Do("min_value", {Returns(NotNaN(min_value(kind)))})

Bounded_max_value == st = "run" /\ Do("max_value", {Returns(NotNaN(max_value(kind)))})

\* from_i64 and the other integer conversions
FromPrimitive_int ==
    /\ st = "run"
    /\ \E n \in (0 - Pow2(WinHi)) .. Pow2(WinHi) :
        Do("from_int", {NotNaN_from_primitive(a, x) : x \in IntToFloat(kind, n)})

\* from_f32 and from_f64
FromPrimitive_float ==
    /\ st = "run"
    /\ \E k \in Kinds : \E n \in RawSamples(k) :
        Do("from_float", {NotNaN_from_primitive(a, x) : x \in FloatToFloat(kind, n)})

Num_from_str_radix ==
    /\ st = "run"
    /\ \E src \in ParseStrings : Do("from_str_radix", {NotNaN_from_str_radix(a, kind, src)})

\* NotNaN is Copy: let b = a
Copy ==
    /\ st = "run"
    /\ b' = a
    /\ last' = "copy"
    /\ UNCHANGED <<kind, a, st, msg>>
    /\ out' = NoOut
    /\ UNCHANGED <<oa, ob, oc>>

\* mem::swap(&mut a, &mut b)
Swap ==
    /\ st = "run"
    /\ a' = b
    /\ b' = a
    /\ last' = "swap"
    /\ UNCHANGED <<kind, st, msg>>
    /\ out' = NoOut
    /\ UNCHANGED <<oa, ob, oc>>

\* a.cmp(&b), its Ordering kept in out until the next operation
Ord_cmp ==
    /\ st = "run"
    /\ \E o \in NotNaN_cmp(a, b) :
        /\ st' = o.st
        /\ out' = [op |-> "notnan_cmp", r |-> o.r]
    /\ last' = "cmp"
    /\ UNCHANGED <<kind, a, b, msg, oa, ob, oc>>

Add == st = "run" /\ Do("add", NotNaN_add(a, b))

Add_T == st = "run" /\ \E other \in RawSamples(kind) : Do("add_T", NotNaN_add_T(a, other))

AddAssign == st = "run" /\ Do("add_assign", NotNaN_add_assign(a, b))

AddAssign_T ==
    /\ st = "run"
    /\ \E other \in RawSamples(kind) : Do("add_assign_T", NotNaN_add_assign_T(a, other))

Sub == st = "run" /\ Do("sub", NotNaN_sub(a, b))

Sub_T == st = "run" /\ \E other \in RawSamples(kind) : Do("sub_T", NotNaN_sub_T(a, other))

SubAssign == st = "run" /\ Do("sub_assign", NotNaN_sub_assign(a, b))

SubAssign_T ==
    /\ st = "run"
    /\ \E other \in RawSamples(kind) : Do("sub_assign_T", NotNaN_sub_assign_T(a, other))

Mul == st = "run" /\ Do("mul", NotNaN_mul(a, b))

Mul_T == st = "run" /\ \E other \in RawSamples(kind) : Do("mul_T", NotNaN_mul_T(a, other))

MulAssign == st = "run" /\ Do("mul_assign", NotNaN_mul_assign(a, b))

MulAssign_T_f64 ==
    /\ st = "run"
    /\ kind = "f64"
    /\ \E other \in RawSamples(kind) :
        Do("mul_assign_T", NotNaN_mul_assign_T_f64(a, other))

MulAssign_T_f32 ==
    /\ st = "run"
    /\ kind = "f32"
    /\ \E other \in RawSamples(kind) :
        Do("mul_assign_T", NotNaN_mul_assign_T_f32(a, other))

Div == st = "run" /\ Do("div", NotNaN_div(a, b))

Div_T == st = "run" /\ \E other \in RawSamples(kind) : Do("div_T", NotNaN_div_T(a, other))

DivAssign == st = "run" /\ Do("div_assign", NotNaN_div_assign(a, b))

DivAssign_T ==
    /\ st = "run"
    /\ \E other \in RawSamples(kind) : Do("div_assign_T", NotNaN_div_assign_T(a, other))

Rem == st = "run" /\ Do("rem", NotNaN_rem(a, b))

Rem_T == st = "run" /\ \E other \in RawSamples(kind) : Do("rem_T", NotNaN_rem_T(a, other))

RemAssign == st = "run" /\ Do("rem_assign", NotNaN_rem_assign(a, b))

RemAssign_T ==
    /\ st = "run"
    /\ \E other \in RawSamples(kind) : Do("rem_assign_T", NotNaN_rem_assign_T(a, other))

Neg == st = "run" /\ Do("neg", NotNaN_neg(a))

Signed_abs == st = "run" /\ Do("abs", NotNaN_abs(a))

Signed_abs_sub == st = "run" /\ Do("abs_sub", NotNaN_abs_sub(a, b))

Signed_signum == st = "run" /\ Do("signum", NotNaN_signum(a))

Next ==
    \/ New
    \/ From
    \/ Zero_zero
    \/ One_one
    \/ Bounded_min_value
    \/ Bounded_max_value
    \/ FromPrimitive_int
    \/ FromPrimitive_float
    \/ Num_from_str_radix
    \/ Copy
    \/ Swap
    \/ Add
    \/ Add_T
    \/ AddAssign
    \/ AddAssign_T
    \/ Sub
    \/ Sub_T
    \/ SubAssign
    \/ SubAssign_T
    \/ Mul
    \/ Mul_T
    \/ MulAssign
    \/ MulAssign_T_f64
    \/ MulAssign_T_f32
    \/ Div
    \/ Div_T
    \/ DivAssign
    \/ DivAssign_T
    \/ Rem
    \/ Rem_T
    \/ RemAssign
    \/ RemAssign_T
    \/ Neg
    \/ Signed_abs
    \/ Signed_abs_sub
    \/ Signed_signum
    \/ Ord_cmp

Spec == Init /\ [][Next]_vars

-----------------------------------------------------------------------------
(* Properties of NotNaN, under Spec.                                       *)

\* the float operation under the operator named base
Underlying(base, x, y) ==
    CASE base = "add" -> FAdd(x, y)
      [] base = "sub" -> FSub(x, y)
      [] base = "mul" -> FMul(x, y)
      [] base = "div" -> FDiv(x, y)
      [] base = "rem" -> FRem(x, y)

Diagnostic(base) ==
    CASE base = "add" -> "Addition resulted in NaN"
      [] base = "sub" -> "Subtraction resulted in NaN"
      [] base = "mul" -> "Multiplication resulted in NaN"
      [] base = "div" -> "Division resulted in NaN"
      [] base = "rem" -> "Rem resulted in NaN"

Call(base, form, outcomes) == {[base |-> base, form |-> form, o |-> o] : o \in outcomes}

\* the outcomes of every operator applied to self and the NotNaN w
WrapperCalls(self, w) ==
    Call("add", "value", NotNaN_add(self, w))
        \cup Call("sub", "value", NotNaN_sub(self, w))
        \cup Call("mul", "value", NotNaN_mul(self, w))
        \cup Call("div", "value", NotNaN_div(self, w))
        \cup Call("rem", "value", NotNaN_rem(self, w))
        \cup Call("add", "assign", NotNaN_add_assign(self, w))
        \cup Call("sub", "assign", NotNaN_sub_assign(self, w))
        \cup Call("mul", "assign", NotNaN_mul_assign(self, w))
        \cup Call("div", "assign", NotNaN_div_assign(self, w))
        \cup Call("rem", "assign", NotNaN_rem_assign(self, w))

\* the outcomes of every operator applied to self, of kind k, and the raw
\* float other
RawCalls(k, self, other) ==
    Call("add", "value", NotNaN_add_T(self, other))
        \cup Call("sub", "value", NotNaN_sub_T(self, other))
        \cup Call("mul", "value", NotNaN_mul_T(self, other))
        \cup Call("div", "value", NotNaN_div_T(self, other))
        \cup Call("rem", "value", NotNaN_rem_T(self, other))
        \cup Call("add", "assign", NotNaN_add_assign_T(self, other))
        \cup Call("sub", "assign", NotNaN_sub_assign_T(self, other))
        \cup Call("mul", "assign",
                  IF k = "f64" THEN NotNaN_mul_assign_T_f64(self, other)
                  ELSE NotNaN_mul_assign_T_f32(self, other))
        \cup Call("div", "assign", NotNaN_div_assign_T(self, other))
        \cup Call("rem", "assign", NotNaN_rem_assign_T(self, other))

AssignOps ==
    {"add_assign", "sub_assign", "mul_assign", "div_assign", "rem_assign",
     "add_assign_T", "sub_assign_T", "mul_assign_T", "div_assign_T", "rem_assign_T"}

\* C1: while the program has not halted, no NotNaN built by the safe
\* constructors and the safe operations holds NaN.
C1_NeverHoldsNaN == st = "run" => (~is_nan(a[1]) /\ ~is_nan(b[1]))

\* C2: for non-NaN operands, an arithmetic operation (by value or in place,
\* on a NotNaN or on a raw float) whose float operation yields NaN panics
\* with the diagnostic of the operation and does not return.
C2_NaNResultPanics ==
    (st = "run" /\ ~is_nan(a[1]) /\ ~is_nan(b[1])) =>
        /\ \A c \in WrapperCalls(a, b) :
            (\E r \in Underlying(c.base, a[1], b[1]) : is_nan(r))
                => (c.o.st = "halted" /\ c.o.msg = Diagnostic(c.base))
        /\ \A other \in RawSamples(kind) : \A c \in RawCalls(kind, a, other) :
            (~is_nan(other) /\ \E r \in Underlying(c.base, a[1], other) : is_nan(r))
                => (c.o.st = "halted" /\ c.o.msg = Diagnostic(c.base))
        /\ \A o \in NotNaN_neg(a) :
            is_nan(FNeg(a[1])) => (o.st = "halted" /\ o.msg = "Negation resulted in NaN")

SignedInf(k, s) == Float(k, s, EMAX(k), {})

\* C7: a division (Div, Div<T>, DivAssign) of a non-NaN dividend by a zero
\* of either sign panics with "Division resulted in NaN" exactly when the
\* dividend is zero too; a dividend that is not zero gives the infinity whose
\* sign is the product of the two signs, and no panic.
C7_DivisionGuard ==
    /\ (st = "run" /\ ~is_nan(a[1])) =>
        \A d \in {zero(kind), neg_zero(kind)} :
            \A o \in NotNaN_div(a, NotNaN(d)) \cup NotNaN_div_T(a, d)
                        \cup NotNaN_div_assign(a, NotNaN(d))
                        \cup NotNaN_div_assign_T(a, d) :
                IF is_zero(a[1])
                    THEN o.st = "halted" /\ o.msg = "Division resulted in NaN"
                    ELSE o.st = "run" /\ o.self = NotNaN(SignedInf(kind, Xor(a[1].s, d.s)))
    /\ (last \in {"div", "div_assign"} /\ is_zero(b[1])) =>
        IF st = "halted" THEN msg = "Division resulted in NaN"
        ELSE is_infinite(a[1])

\* C7 witness: a positive dividend was divided by the NotNaN -0.0 and the
\* quotient is the negative infinity
C7_Witness ==
    /\ last = "div"
    /\ st = "run"
    /\ b = NotNaN(neg_zero(kind))
    /\ a = NotNaN(neg_infinity(kind))

\* C10: an operator in place that panics because its raw operand is NaN
\* leaves the stored value as it was; one that panics because the result is
\* NaN has already stored the NaN.
C10_InPlacePanic ==
    /\ st = "run" =>
        /\ \A c \in WrapperCalls(a, b) :
            (c.form = "assign" /\ c.o.st = "halted") =>
                /\ is_nan(c.o.self[1])
                /\ c.o.self[1] \in Underlying(c.base, a[1], b[1])
                /\ c.o.msg = Diagnostic(c.base)
        /\ \A other \in RawSamples(kind) : \A c \in RawCalls(kind, a, other) :
            (c.form = "assign" /\ c.o.st = "halted") =>
                IF is_nan(other) THEN c.o.self = a /\ c.o.msg = AssertOther
                ELSE /\ is_nan(c.o.self[1])
                     /\ c.o.self[1] \in Underlying(c.base, a[1], other)
                     /\ c.o.msg = Diagnostic(c.base)
    /\ (st = "halted" /\ last \in AssignOps /\ msg # AssertOther) => is_nan(a[1])

\* C10 witness: a %= other has panicked on its result and a holds NaN
C10_Witness ==
    /\ st = "halted"
    /\ last = "rem_assign_T"
    /\ msg = "Rem resulted in NaN"
    /\ is_nan(a[1])

\* C11: NotNaN::cmp never runs unreachable(): whenever cmp has been applied
\* to two NotNaN values obtained by the safe operations, partial_cmp was
\* Some and the answer is the float ordering of the two values.
C11_CmpNeverUnreachable ==
    last = "cmp" =>
        /\ st = "run"
        /\ out.r \in {"Less", "Equal", "Greater"}
        /\ out.r = float_partial_cmp(a[1], b[1])

-----------------------------------------------------------------------------
(* Sampled bit patterns: every sign, the exponent fields at the ends and   *)
(* in the middle of the range, fractions over the leading and trailing     *)
(* bits.                                                                   *)

ExpSamples(k) ==
    {0, BIAS(k), BIAS(k) + MBITS(k), EMAX(k)}

FracSamples(k) ==
    SUBSET ((0 .. (LowBits - 1)) \cup ((MBITS(k) - TopBits) .. (MBITS(k) - 1)))

Samples(k) ==
    {Float(k, s, e, f) : s \in {0, 1}, e \in ExpSamples(k), f \in FracSamples(k)}

CoreSamples(k) ==
    {nan(k), neg_infinity(k), neg_zero(k), one(k)}

-----------------------------------------------------------------------------
(* The comparison, equality, hashing and construction functions applied    *)
(* to sampled inputs oa, ob, oc.                                           *)

InitPure ==
    /\ kind \in Kinds
    /\ oa \in Samples(kind)
    /\ ob \in Samples(kind)
    /\ oc \in CoreSamples(kind)
    /\ out = NoOut
    /\ a = NotNaN(zero(kind))
    /\ b = NotNaN(zero(kind))
    /\ st = "run"
    /\ msg = ""
    /\ last = "default"

Apply(op, r) ==
    /\ out = NoOut
    /\ out' = [op |-> op, r |-> r]
    /\ UNCHANGED <<oa, ob, oc>>
    /\ UNCHANGED nvars

OrdCmp == Apply("cmp", OrderedFloat_cmp(OrderedFloat(oa), OrderedFloat(ob)))

OrdLt == Apply("lt", OrderedFloat_lt(OrderedFloat(oa), OrderedFloat(ob)))

OrdGt == Apply("gt", OrderedFloat_gt(OrderedFloat(oa), OrderedFloat(ob)))

OrdEq == Apply("eq", OrderedFloat_eq(OrderedFloat(oa), OrderedFloat(ob)))

OrdHash == Apply("hash", OrderedFloat_hash(OrderedFloat(oa)))

TryNew == Apply("new", NotNaN_new(oa))

NewHash ==
    /\ NotNaN_new(oa).tag = "Ok"
    /\ Apply("notnan_hash", NotNaN_hash(NotNaN_new(oa).val))

RawDoubleBits == Apply("raw_double_bits", raw_double_bits(oa))

NextPure ==
    \/ OrdCmp
    \/ OrdLt
    \/ OrdGt
    \/ OrdEq
    \/ OrdHash
    \/ TryNew
    \/ NewHash
    \/ RawDoubleBits

SpecPure == InitPure /\ [][NextPure]_vars

-----------------------------------------------------------------------------
(* Properties of the comparison, equality, hashing and construction        *)
(* functions, under SpecPure.                                              *)

Reverse(o) == IF o = "Less" THEN "Greater" ELSE IF o = "Greater" THEN "Less" ELSE o

OA == OrderedFloat(oa)
OB == OrderedFloat(ob)
OC == OrderedFloat(oc)

\* C3: OrderedFloat::cmp is a total order over all floats: the float
\* comparison when neither side is NaN, Equal for two NaN of any sign and
\* payload, Greater when only the left side is NaN, Less when only the right
\* side is; cmp(a, b) is the reverse of cmp(b, a); Less is transitive.
C3_CmpTotalOrder ==
    out.op = "cmp" =>
        /\ out.r \in {"Less", "Equal", "Greater"}
        /\ (~is_nan(oa) /\ ~is_nan(ob)) =>
                /\ (out.r = "Less") = float_lt(oa, ob)
                /\ (out.r = "Greater") = float_gt(oa, ob)
                /\ (out.r = "Equal") = float_eq(oa, ob)
        /\ (is_nan(oa) /\ is_nan(ob)) => out.r = "Equal"
        /\ (is_nan(oa) /\ ~is_nan(ob)) => out.r = "Greater"
        /\ (~is_nan(oa) /\ is_nan(ob)) => out.r = "Less"
        /\ out.r = Reverse(OrderedFloat_cmp(OB, OA))
        /\ (out.r = "Less" /\ OrderedFloat_cmp(OB, OC) = "Less")
                => OrderedFloat_cmp(OA, OC) = "Less"
        /\ (OrderedFloat_cmp(OC, OA) = "Less" /\ out.r = "Less")
                => OrderedFloat_cmp(OC, OB) = "Less"
        /\ (OrderedFloat_cmp(OA, OC) = "Less" /\ OrderedFloat_cmp(OC, OB) = "Less")
                => out.r = "Less"

\* C3 witness: cmp was applied to c < a < NaN and answered Less
C3_Witness ==
    /\ out.op = "cmp"
    /\ out.r = "Less"
    /\ ~is_nan(oa)
    /\ is_nan(ob)
    /\ OrderedFloat_cmp(OC, OA) = "Less"

\* C4: with the operators <, == and > of OrderedFloat exactly one of a < b,
\* a == b, a > b holds for all a and b, NaN included; a non-NaN value is
\* less than NaN and NaN is not less than it; the operators agree with cmp.
C4_OperatorsTrichotomy ==
    LET lt == IF out.op = "lt" THEN out.r ELSE OrderedFloat_lt(OA, OB)
        eq == IF out.op = "eq" THEN out.r ELSE OrderedFloat_eq(OA, OB)
        gt == IF out.op = "gt" THEN out.r ELSE OrderedFloat_gt(OA, OB)
    IN out.op \in {"lt", "eq", "gt"} =>
        /\ lt \/ eq \/ gt
        /\ ~(lt /\ eq) /\ ~(lt /\ gt) /\ ~(eq /\ gt)
        /\ (~is_nan(oa) /\ is_nan(ob)) => (lt /\ ~gt)
        /\ lt = (OrderedFloat_cmp(OA, OB) = "Less")
        /\ gt = (OrderedFloat_cmp(OA, OB) = "Greater")

\* C5: equal wrappers feed the same canonical word to the hasher, for
\* OrderedFloat (after its NaN normalisation) and for NotNaN.
C5_EqImpliesSameHash ==
    /\ out.op = "hash" =>
        /\ OrderedFloat_eq(OA, OB) => out.r = OrderedFloat_hash(OB)
        /\ (is_nan(oa) /\ is_nan(ob)) => out.r = OrderedFloat_hash(OB)
        /\ (is_zero(oa) /\ is_zero(ob)) => out.r = OrderedFloat_hash(OB)
    /\ (/\ out.op = "notnan_hash"
        /\ NotNaN_new(ob).tag = "Ok"
        /\ NotNaN_eq(NotNaN_new(oa).val, NotNaN_new(ob).val))
            => out.r = NotNaN_hash(NotNaN_new(ob).val)

\* C5 witness: the hash of a zero was taken while ob is the zero of the
\* other sign
C5_Witness ==
    /\ out.op = "hash"
    /\ is_zero(oa)
    /\ is_zero(ob)
    /\ oa.s # ob.s
    /\ out.r = OrderedFloat_hash(OB)

\* C6: NotNaN::new(x) is Err(FloatIsNaN) exactly for the NaN bit patterns
\* (exponent field all ones, fraction not zero, either sign), and Ok(w) with
\* w.into_inner() = x for every other x.
C6_NewRejectsExactlyNaN ==
    out.op = "new" =>
        /\ (out.r = Err("FloatIsNaN")) = (oa.e = EMAX(oa.k) /\ oa.f # {})
        /\ ~(oa.e = EMAX(oa.k) /\ oa.f # {})
                => (out.r.tag = "Ok" /\ NotNaN_into_inner(out.r.val) = oa)

\* C6 witness: new was applied to a negative NaN with the quiet bit clear
C6_Witness ==
    /\ out.op = "new"
    /\ oa.e = EMAX(oa.k)
    /\ oa.s = 1
    /\ oa.f = {0}
    /\ out.r.tag = "Err"

\* C8: a value of f32 and the same value promoted to f64 have the same
\* canonical word.
C8_CrossWidthSameWord ==
    (out.op = "raw_double_bits" /\ oa.k = "f32" /\ ~is_nan(oa))
        => out.r = raw_double_bits(Promote(oa))

\* C9: two values of one width have the same canonical word exactly when
\* they are equal under the wrapper's equality; no value other than a zero
\* has the canonical zero, no value other than a NaN the canonical NaN.
C9_SameWordIffEqual ==
    out.op = "raw_double_bits" =>
        /\ (out.r = raw_double_bits(ob)) = OrderedFloat_eq(OA, OB)
        /\ (out.r = CANONICAL_ZERO_BITS) = is_zero(oa)
        /\ (out.r = CANONICAL_NAN_BITS) = is_nan(oa)

====
